---- MODULE Spec2Model ----
(***************************************************************************)
(* music-visualizer (src/src/main.rs): the capture callback that fills the *)
(* shared sample buffer, the main render loop that turns the newest 2048   *)
(* samples into a spectrum, and the BeatDetector fed by that loop.         *)
(*                                                                         *)
(* Units.  Time is in microseconds (Instant has sub-millisecond            *)
(* resolution; Duration::as_millis truncates).  Spectrum magnitudes and    *)
(* energies are fixed-point, 1 unit = 0.001.  bpm is fixed-point,          *)
(* 1 unit = 0.001 beats per minute.  A sample is identified by its         *)
(* 0-based position in the stream of all samples delivered to the callback.*)
(* Option<T> is a sequence: None is <<>>, Some(x) is <<x>>.                *)
(***************************************************************************)
EXTENDS Integers, Sequences, FiniteSets, TLC

VARIABLES
    samples,        \* Arc<Mutex<Vec<f32>>>: the shared sample buffer
    total,          \* number of samples handed to the callback so far
    lock,           \* owner of the buffer mutex: "free", "cb" or "main"
    cbpc,           \* position of the capture callback
    data,           \* the callback's argument `data`
    mpc,            \* position of the main loop
    window,         \* the slice the tick handed to hann_window
    transform,      \* outcome of samples_fft_to_spectrum on this tick
    spectrum_data,  \* Option<FrequencySpectrum> of this tick
    det,            \* beat_detector
    ret,            \* Option<bool>: what detect returned on this tick
    now,            \* the monotonic clock read by Instant::now()
    is_beat,        \* main's is_beat latch
    beat_timer,     \* main's beat_timer
    beat_info,      \* the BeatInfo handed to the visualizer
    ticks,          \* completed iterations of the render loop
    accepted,       \* clock readings of the ticks that incremented total_beats
    since,          \* ticks since detect last returned true, up to LatchTicks
    det2,           \* a second detector, fed the same spectra as det
    now2,           \* the clock as read by the second detector
    rets,           \* what the two detectors returned on the last replayed call
    replays,        \* calls replayed to the two detectors so far
    same_times,     \* the two detectors have been called at the same times
    scen,           \* the input scenario of the run; "free" for any input
    stream,         \* the capture stream: "none", "live" or "failed"
    channels,       \* config.channels: values per frame in `data`
    acquisitions,   \* calls of build_input_stream so far
    stream_errors,  \* calls of the stream's error callback so far
    error_at        \* samples delivered before the last stream error

vars == <<samples, total, lock, cbpc, data, mpc, window, transform,
          spectrum_data, det, ret, now, is_beat, beat_timer, beat_info,
          ticks, accepted, since, det2, now2, rets, replays, same_times,
          scen, stream, channels, acquisitions, stream_errors, error_at>>

bufVars    == <<samples, total, lock, cbpc, data>>
replayVars == <<det2, now2, rets, replays, same_times>>
sysVars    == <<scen, stream, channels, acquisitions, stream_errors, error_at>>
mainVars   == <<mpc, window, transform, spectrum_data, det, ret, now, is_beat,
                beat_timer, beat_info, ticks, accepted, since>>

----------------------------------------------------------------------------
(* Program constants *)

BufCap      == 4096     \* samples kept by the callback
FftSize     == 2048     \* samples analysed per tick
HistorySize == 43       \* BeatDetector::new(43, 1.5)
SensNum     == 3        \* sensitivity 1.5 = SensNum / SensDen
SensDen     == 2
Floor       == 10       \* avg_low_energy > 0.01
LowHz       == 20       \* f >= 20.0
HighHz      == 150      \* f <= 150.0
DebounceMs  == 300      \* duration.as_millis() > 300
MaxIntervals == 10      \* self.intervals.len() > 10
LatchTicks  == 5        \* beat_timer = 5
MinuteMs    == 60000    \* 60000.0 / avg_ms
UsPerMs     == 1000     \* microseconds per millisecond (as_millis)
BpmScale    == 1000     \* fixed-point scale of a bpm value
PollTimeout == 16000    \* event::poll(Duration::from_millis(16)), in us

(* Bounds of the model *)

MaxTotal  == 7000       \* samples delivered to the callback in one run
MaxTicks  == 3          \* render-loop iterations in one run of Spec
MaxCalls  == 4          \* detector ticks in one run of SpecDet
MaxReplay == 3          \* replayed calls in one run of SpecReplay
MaxScenTicks == 46      \* detector ticks in one scenario run of SpecScen
MaxErrors == 1          \* stream errors reported in one run of SpecSys
MaxPulseTicks == 8      \* render-loop iterations in one run of SpecLatch

ChunkSizes == {1000, 5000}              \* lengths of `data` in one callback
PollDelays == {100000, 301000}          \* time between two ticks of Spec
Delays     == {100000, 300500, 301000}  \* time between two detector ticks

None    == <<>>
Some(x) == <<x>>

(* The spectra the external transform may return: maps from a bin's        *)
(* frequency in Hz to its magnitude.                                       *)
SpOut  == (10 :> 50) @@ (200 :> 900)                \* no bin in [20, 150]
Sp2    == (40 :> 1) @@ (150 :> 3)                   \* low band reads 0.002
Sp5    == (20 :> 4) @@ (150 :> 6) @@ (151 :> 700)   \* low band reads 0.005
Sp20   == (20 :> 20) @@ (60 :> 20) @@ (19 :> 800)   \* low band reads 0.02
Sp200  == (60 :> 150) @@ (100 :> 250)               \* low band reads 0.2
Spectra == {SpOut, Sp2, Sp5, Sp20, Sp200}

\* a loud spectrum whose low band reads 0.2 + k / 1000
SpLoud(k) == (60 :> 150 + k) @@ (100 :> 250 + k)

\* the spectra returned to the render loop of Spec
TickSpectra == {sp \in Spectra : 60 \in DOMAIN sp}

----------------------------------------------------------------------------
(* The capture callback's buffer operations (main.rs 343-350) *)

\* the next n samples of the stream, as delivered in one callback
Chunk(n) == [i \in 1..n |-> total + i - 1]

\* s.extend_from_slice(data)
Extend(s, d) == s \o d

\* Trim with the drain one element short
TrimOffByOne(s) ==
    IF Len(s) > BufCap
    THEN LET keep == Len(s) - BufCap IN SubSeq(s, keep, Len(s))
    ELSE s

\* Trim that drops the newest samples instead of the oldest (truncate)
TrimNewest(s) == IF Len(s) > BufCap THEN SubSeq(s, 1, BufCap) ELSE s

\* if s.len() > 4096 { let keep = s.len() - 4096; s.drain(0..keep); }
Trim(s) ==
    IF Len(s) > BufCap
    THEN LET keep == Len(s) - BufCap IN SubSeq(s, keep + 1, Len(s))
    ELSE s

(* The tick's snapshot (main.rs 394-395) *)

\* s.len() >= 2048
Enough(s) == Len(s) >= FftSize

\* Window taking the oldest 2048 samples, &s[..2048]
WindowOldest(s) == SubSeq(s, 1, FftSize)

\* &s[s.len() - 2048..]
Window(s) == SubSeq(s, Len(s) - FftSize + 1, Len(s))

----------------------------------------------------------------------------
(* BeatDetector (main.rs 228-311) *)

RECURSIVE SumOver(_, _)
SumOver(f, S) ==
    IF S = {} THEN 0
    ELSE LET x == CHOOSE y \in S : TRUE IN f[x] + SumOver(f, S \ {x})

RECURSIVE SumSeq(_)
SumSeq(s) == IF s = <<>> THEN 0 ELSE Head(s) + SumSeq(Tail(s))

\* Duration::as_millis
AsMillis(d) == d \div UsPerMs

\* BeatDetector::new(history_size, sensitivity) at clock reading t
NewDetector(t) ==
    [energy_history |-> <<>>, last_beat |-> t, intervals |-> <<>>,
     total_beats |-> 0]

\* the bins counted by the loop: f >= 20.0 && f <= 150.0
LowBand(sp) == {f \in DOMAIN sp : f >= LowHz /\ f <= HighHz}

\* low_energy / count as f32
AvgLowEnergy(sp) == SumOver(sp, LowBand(sp)) \div Cardinality(LowBand(sp))

\* PushEnergy that evicts the newest reading (pop) instead of the oldest
PushEnergyPop(h, e) ==
    LET p == Append(h, e)
    IN  IF Len(p) > HistorySize THEN SubSeq(p, 1, HistorySize) ELSE p

\* energy_history.push(e); if len > history_size { remove(0) }
PushEnergy(h, e) ==
    LET p == Append(h, e) IN IF Len(p) > HistorySize THEN Tail(p) ELSE p

\* RawBeat without the absolute floor
RawBeatNoFloor(e, h) == e * SensDen * Len(h) > SensNum * SumSeq(h)

\* avg_low_energy > sensitivity * history_avg && avg_low_energy > 0.01,
\* history_avg = sum / len over the history before the push
RawBeat(e, h) ==
    /\ e * SensDen * Len(h) > SensNum * SumSeq(h)
    /\ e > Floor

\* PastDebounce with the threshold mistyped as 30
PastDebounce30(duration) == AsMillis(duration) > 30

\* duration.as_millis() > 300
PastDebounce(duration) == AsMillis(duration) > DebounceMs

\* intervals.push_back(duration); if len > 10 { pop_front() }
PushInterval(q, duration) ==
    LET p == Append(q, duration) IN IF Len(p) > MaxIntervals THEN Tail(p) ELSE p

\* Accept that stores no interval for the first beat of a detector
AcceptSkipFirst(d, t) ==
    [d EXCEPT !.intervals = IF d.total_beats = 0 THEN d.intervals
                            ELSE PushInterval(d.intervals, t - d.last_beat),
              !.last_beat = t,
              !.total_beats = d.total_beats + 1]

\* the accepted-beat branch: lines 287-292
Accept(d, t) ==
    [d EXCEPT !.intervals = PushInterval(d.intervals, t - d.last_beat),
              !.last_beat = t,
              !.total_beats = d.total_beats + 1]

\* NoBins that also clears the detector
NoBinsReset(d) == [det |-> NewDetector(d.last_beat), ret |-> FALSE]

\* NoBins that records a reading of 0 for a spectrum without low-band bins
NoBinsPush(d) ==
    [det |-> [d EXCEPT !.energy_history = PushEnergy(d.energy_history, 0)],
     ret |-> FALSE]

\* detect's early return when no bin is in the low band: lines 261-263
NoBins(d) == [det |-> d, ret |-> FALSE]

\* Returned gated by the debounce: true only for an accepted beat
ReturnedAccepted(raw, ok) == ok

\* Returned gated by the debounce, for the replay of two detectors
ReturnedIfCounted(raw, ok) == raw /\ ok

\* what detect returns after the beat bookkeeping: line 296
Returned(raw, ok) == raw

\* BeatDetector::detect(&mut self, spectrum) called at clock reading t:
\* the detector afterwards and the value returned
Detect(d, sp, t) ==
    IF Cardinality(LowBand(sp)) = 0 THEN NoBins(d)
    ELSE LET e == AvgLowEnergy(sp) IN
         IF d.energy_history = <<>>
         THEN [det |-> [d EXCEPT !.energy_history = <<e>>], ret |-> FALSE]
         ELSE LET h   == d.energy_history
                  raw == RawBeat(e, h)
                  d1  == [d EXCEPT !.energy_history = PushEnergy(h, e)]
                  ok  == raw /\ PastDebounce(t - d.last_beat)
              IN  [det |-> IF ok THEN Accept(d1, t) ELSE d1,
                   ret |-> Returned(raw, ok)]

\* BeatDetector::get_bpm, in units of 1/BpmScale beats per minute
GetBpm(d) ==
    IF d.intervals = <<>> THEN 0
    ELSE LET ms  == [i \in 1..Len(d.intervals) |-> AsMillis(d.intervals[i])]
             sum == SumSeq(ms)
         IN  IF sum = 0 THEN 0
             ELSE (MinuteMs * BpmScale * Len(ms)) \div sum

----------------------------------------------------------------------------
(* The render loop's per-tick bookkeeping (main.rs 392-427) *)

\* Ok that keeps the previous tick's spectrum when the transform fails
OkOrStale(r) == IF r.ok THEN Some(r.val) ELSE spectrum_data

\* Result<FrequencySpectrum, _>::ok()
Ok(r) == IF r.ok THEN Some(r.val) ELSE None

\* what samples_fft_to_spectrum may return
TransformResults ==
    {[ok |-> TRUE, val |-> sp] : sp \in TickSpectra} \cup {[ok |-> FALSE]}

\* Latch that stands still on a tick without a spectrum
LatchHoldsWithoutSpectrum(b, t, detected) ==
    IF detected = None THEN [is_beat |-> b, beat_timer |-> t]
    ELSE LET hit == detected = Some(TRUE)
             b1  == IF hit THEN TRUE ELSE b
             t1  == IF hit THEN LatchTicks ELSE t
         IN  IF t1 > 0 THEN [is_beat |-> b1, beat_timer |-> t1 - 1]
             ELSE [is_beat |-> FALSE, beat_timer |-> t1]

\* lines 410-421: the latch over detect's return value; detected is an
\* Option<bool>, None when detect was not called
Latch(b, t, detected) ==
    LET hit == detected = Some(TRUE)
        b1  == IF hit THEN TRUE ELSE b
        t1  == IF hit THEN LatchTicks ELSE t
    IN  IF t1 > 0 THEN [is_beat |-> b1, beat_timer |-> t1 - 1]
        ELSE [is_beat |-> FALSE, beat_timer |-> t1]

\* lines 410-415: detect is called only with a spectrum
CallDetect(d, spo, t) ==
    IF spo # None
    THEN LET r == Detect(d, spo[1], t) IN [det |-> r.det, ret |-> Some(r.ret)]
    ELSE [det |-> d, ret |-> None]

----------------------------------------------------------------------------
\* the state the render loop starts from, but for the variables below
InitState ==
    /\ samples = <<>>
    /\ total = 0
    /\ lock = "free"
    /\ cbpc = "idle"
    /\ data = <<>>
    /\ window = <<>>
    /\ transform = "none"
    /\ spectrum_data = None
    /\ det = NewDetector(0)
    /\ ret = None
    /\ now = 0
    /\ is_beat = FALSE
    /\ beat_timer = 0
    /\ beat_info = [is_beat |-> FALSE, bpm |-> 0, total_beats |-> 0]
    /\ ticks = 0
    /\ accepted = <<>>
    /\ since = LatchTicks
    /\ det2 = NewDetector(0)
    /\ now2 = 0
    /\ rets = <<>>
    /\ replays = 0
    /\ same_times = TRUE
    /\ stream_errors = 0
    /\ error_at = 0

\* the stream is built and playing (line 355), a stereo device
Started ==
    /\ mpc = "poll"
    /\ stream = "live"
    /\ channels = 2
    /\ acquisitions = 1

Init ==
    /\ InitState
    /\ Started
    /\ scen = "free"

\* Mutex::lock returns at once whoever holds the mutex
MutexIgnored == TRUE

\* Mutex::lock returns when no one holds the mutex
MutexFree == lock = "free"

(* The capture callback, main.rs 343-350 *)

\* the audio subsystem calls the data callback with the next n samples
CbInvoke(n) ==
    /\ cbpc = "idle"
    /\ stream = "live"
    /\ total + n <= MaxTotal
    /\ data' = Chunk(n)
    /\ cbpc' = "lock"
    /\ UNCHANGED <<samples, total, lock>>
    /\ UNCHANGED mainVars
    /\ UNCHANGED replayVars
    /\ UNCHANGED sysVars

\* let mut s = samples_clone.lock().unwrap();
CbLock ==
    /\ cbpc = "lock"
    /\ MutexFree
    /\ lock' = "cb"
    /\ cbpc' = "extend"
    /\ UNCHANGED <<samples, total, data>>
    /\ UNCHANGED mainVars
    /\ UNCHANGED replayVars
    /\ UNCHANGED sysVars

\* s.extend_from_slice(data);
CbExtend ==
    /\ cbpc = "extend"
    /\ samples' = Extend(samples, data)
    /\ total' = total + Len(data)
    /\ cbpc' = "trim"
    /\ UNCHANGED <<lock, data>>
    /\ UNCHANGED mainVars
    /\ UNCHANGED replayVars
    /\ UNCHANGED sysVars

\* the trim, and the guard dropped at the end of the closure
CbTrim ==
    /\ cbpc = "trim"
    /\ samples' = Trim(samples)
    /\ lock' = "free"
    /\ cbpc' = "idle"
    /\ data' = <<>>
    /\ UNCHANGED total
    /\ UNCHANGED mainVars
    /\ UNCHANGED replayVars
    /\ UNCHANGED sysVars

(* The render loop, main.rs 375-467 *)

\* event::poll / event::read: dt is the time since the previous tick
TickPoll(dt, key) ==
    /\ mpc = "poll"
    /\ ticks < MaxTicks
    /\ now' = now + dt
    /\ mpc' = IF key = "q" THEN "exited" ELSE "lock"
    /\ UNCHANGED <<window, transform, spectrum_data, det, ret, is_beat,
                   beat_timer, beat_info, ticks, accepted, since>>
    /\ UNCHANGED bufVars
    /\ UNCHANGED replayVars
    /\ UNCHANGED sysVars

\* let s = samples.lock().unwrap();
TickLock ==
    /\ mpc = "lock"
    /\ MutexFree
    /\ lock' = "main"
    /\ mpc' = "spectrum"
    /\ UNCHANGED <<window, transform, spectrum_data, det, ret, now, is_beat,
                   beat_timer, beat_info, ticks, accepted, since>>
    /\ UNCHANGED <<samples, total, cbpc, data>>
    /\ UNCHANGED replayVars
    /\ UNCHANGED sysVars

\* lines 394-408: the spectrum of this tick; the guard is dropped at the
\* end of the block
TickSpectrum ==
    /\ mpc = "spectrum"
    /\ IF Enough(samples)
       THEN /\ window' = Window(samples)
            /\ \E r \in TransformResults :
                 /\ transform' = IF r.ok THEN "ok" ELSE "err"
                 /\ spectrum_data' = Ok(r)
       ELSE /\ window' = <<>>
            /\ transform' = "none"
            /\ spectrum_data' = None
    /\ lock' = "free"
    /\ mpc' = "detect"
    /\ UNCHANGED <<det, ret, now, is_beat, beat_timer, beat_info, ticks,
                   accepted, since>>
    /\ UNCHANGED <<samples, total, cbpc, data>>
    /\ UNCHANGED replayVars
    /\ UNCHANGED sysVars

\* lines 410-427: detect, the latch, and the BeatInfo of this tick
TickDetect ==
    /\ mpc = "detect"
    /\ LET r == CallDetect(det, spectrum_data, now)
           l == Latch(is_beat, beat_timer, r.ret)
       IN  /\ det' = r.det
           /\ ret' = r.ret
           /\ is_beat' = l.is_beat
           /\ beat_timer' = l.beat_timer
           /\ beat_info' = [is_beat |-> l.is_beat, bpm |-> GetBpm(r.det),
                            total_beats |-> r.det.total_beats]
           /\ accepted' = IF r.det.total_beats > det.total_beats
                          THEN Append(accepted, now) ELSE accepted
           /\ since' = IF r.ret = Some(TRUE) THEN 0
                       ELSE IF since < LatchTicks THEN since + 1 ELSE since
    /\ ticks' = ticks + 1
    /\ mpc' = "poll"
    /\ UNCHANGED <<window, transform, spectrum_data, now>>
    /\ UNCHANGED bufVars
    /\ UNCHANGED replayVars
    /\ UNCHANGED sysVars

Next ==
    \/ \E n \in ChunkSizes : CbInvoke(n)
    \/ CbLock
    \/ CbExtend
    \/ CbTrim
    \/ \E dt \in PollDelays, key \in {"none", "q"} : TickPoll(dt, key)
    \/ TickLock
    \/ TickSpectrum
    \/ TickDetect

Spec == Init /\ [][Next]_vars

----------------------------------------------------------------------------
(* The detector under any sequence of ticks: the render loop with the      *)
(* outcome of lines 376-408 (the time of the tick, and a spectrum or none) *)
(* chosen freely, followed by lines 410-427 as in Spec.                    *)

DetFeed(dt, spo) ==
    /\ mpc = "poll"
    /\ scen = "free"
    /\ ticks < MaxCalls
    /\ now' = now + dt
    /\ spectrum_data' = spo
    /\ transform' = IF spo = None THEN "none" ELSE "ok"
    /\ mpc' = "detect"
    /\ UNCHANGED <<window, det, ret, is_beat, beat_timer, beat_info, ticks,
                   accepted, since>>
    /\ UNCHANGED bufVars
    /\ UNCHANGED replayVars
    /\ UNCHANGED sysVars

NextDet ==
    \/ \E dt \in Delays, spo \in {None} \cup {Some(sp) : sp \in Spectra} :
          DetFeed(dt, spo)
    \/ TickDetect

SpecDet == Init /\ [][NextDet]_vars

----------------------------------------------------------------------------
(* The detector under long input scenarios: the spectrum of the k-th tick  *)
(* is fixed by the scenario, chosen when the run starts; "free" runs are   *)
(* those of SpecDet.                                                       *)
(*   quiet       every tick reads 0.005                                    *)
(*   primed      43 ticks read 0.02, the following ticks read 0.2          *)
(*   alternating odd ticks read 0.005, even ticks read 0.2 + k/1000,       *)
(*               about 150 ms apart                                        *)

Scenarios == {"quiet", "primed", "alternating"}

ScenSpectrum(sc, k) ==
    CASE sc = "quiet"       -> Sp5
      [] sc = "primed"      -> IF k <= HistorySize THEN Sp20 ELSE Sp200
      [] sc = "alternating" -> IF k % 2 = 1 THEN Sp5 ELSE SpLoud(k)

\* the time between tick k - 1 and tick k
ScenDelays(sc, k) ==
    IF sc = "alternating" THEN {150000 + 1000 * (k % 5)} ELSE {5000, 16000}

InitScen ==
    /\ InitState
    /\ Started
    /\ scen \in Scenarios \cup {"free"}

ScenFeed(dt) ==
    /\ mpc = "poll"
    /\ scen # "free"
    /\ ticks < MaxScenTicks
    /\ dt \in ScenDelays(scen, ticks + 1)
    /\ now' = now + dt
    /\ spectrum_data' = Some(ScenSpectrum(scen, ticks + 1))
    /\ transform' = "ok"
    /\ mpc' = "detect"
    /\ UNCHANGED <<window, det, ret, is_beat, beat_timer, beat_info, ticks,
                   accepted, since>>
    /\ UNCHANGED bufVars
    /\ UNCHANGED replayVars
    /\ UNCHANGED sysVars

NextScen ==
    \/ \E dt \in Delays, spo \in {None} \cup {Some(sp) : sp \in Spectra} :
          DetFeed(dt, spo)
    \/ \E dt \in {5000, 16000} \cup {150000 + 1000 * i : i \in 0..4} : ScenFeed(dt)
    \/ TickDetect

SpecScen == InitScen /\ [][NextScen]_vars

----------------------------------------------------------------------------
(* The latch of the render loop under any sequence of ticks that have no   *)
(* spectrum, a quiet one or a loud one, one poll timeout apart.            *)

PulseInputs == {None, Some(Sp5), Some(Sp200)}

InitLatch ==
    /\ InitState
    /\ Started
    /\ scen = "pulse"

PulseFeed(spo) ==
    /\ mpc = "poll"
    /\ scen = "pulse"
    /\ ticks < MaxPulseTicks
    /\ now' = now + PollTimeout
    /\ spectrum_data' = spo
    /\ transform' = IF spo = None THEN "none" ELSE "ok"
    /\ mpc' = "detect"
    /\ UNCHANGED <<window, det, ret, is_beat, beat_timer, beat_info, ticks,
                   accepted, since>>
    /\ UNCHANGED bufVars
    /\ UNCHANGED replayVars
    /\ UNCHANGED sysVars

NextLatch ==
    \/ \E spo \in PulseInputs : PulseFeed(spo)
    \/ TickDetect

SpecLatch == InitLatch /\ [][NextLatch]_vars

----------------------------------------------------------------------------
(* The whole program: the audio capture setup of main.rs 329-355, then the *)
(* callback and the render loop of Spec, with stream errors reported by    *)
(* the audio subsystem.                                                    *)

\* config.channels of the default output device
DeviceChannels == {1, 2}

\* how the setup ends: "no_device" is the expect of line 332, the others
\* are the `?` of lines 336, 353 and 355
StartupOutcomes == {"ok", "no_device", "no_config", "build_failed", "play_failed"}

\* the process-wide failure flag: main.rs keeps none, and the error
\* callback of line 351 only prints the error
FailureFlag == FALSE

InitSys ==
    /\ InitState
    /\ mpc = "startup"
    /\ stream = "none"
    /\ channels = 0
    /\ acquisitions = 0
    /\ scen = "free"

\* lines 329-355
Startup(outcome, c) ==
    /\ mpc = "startup"
    /\ acquisitions' = IF outcome \in {"ok", "build_failed", "play_failed"}
                       THEN acquisitions + 1 ELSE acquisitions
    /\ IF outcome = "ok"
       THEN /\ mpc' = "poll"
            /\ stream' = "live"
            /\ channels' = c
       ELSE /\ mpc' = IF outcome = "no_device" THEN "panicked" ELSE "returned_err"
            /\ stream' = "none"
            /\ channels' = IF outcome = "no_device" THEN channels ELSE c
    /\ UNCHANGED <<window, transform, spectrum_data, det, ret, now, is_beat,
                   beat_timer, beat_info, ticks, accepted, since>>
    /\ UNCHANGED bufVars
    /\ UNCHANGED replayVars
    /\ UNCHANGED <<scen, stream_errors, error_at>>

\* line 351: the audio subsystem reports a stream error between two data
\* callbacks; the stream survives it or not
StreamError(alive) ==
    /\ stream = "live"
    /\ cbpc = "idle"
    /\ stream_errors < MaxErrors
    /\ stream_errors' = stream_errors + 1
    /\ error_at' = total
    /\ stream' = IF alive THEN "live" ELSE "failed"
    /\ UNCHANGED mainVars
    /\ UNCHANGED bufVars
    /\ UNCHANGED replayVars
    /\ UNCHANGED <<scen, channels, acquisitions>>

\* the ticks of SpecSys are all 100 ms apart
NextSys ==
    \/ \E outcome \in StartupOutcomes, c \in DeviceChannels : Startup(outcome, c)
    \/ \E alive \in BOOLEAN : StreamError(alive)
    \/ \E n \in ChunkSizes : CbInvoke(n)
    \/ CbLock
    \/ CbExtend
    \/ CbTrim
    \/ \E key \in {"none", "q"} : TickPoll(100000, key)
    \/ TickLock
    \/ TickSpectrum
    \/ TickDetect

SpecSys == InitSys /\ [][NextSys]_vars

----------------------------------------------------------------------------
(* The callback and the render loop of Spec, with a render loop that may   *)
(* panic inside its critical section.  The threads are scheduled fairly:   *)
(* a thread that can take a step eventually takes one.                     *)

\* a panic in hann_window or samples_fft_to_spectrum (lines 395-404): the
\* unwinding drops the guard `s` and the mutex is poisoned
MainFailure ==
    /\ mpc = "spectrum"
    /\ lock = "main"
    /\ mpc' = "panicked"
    /\ lock' = "poisoned"
    /\ UNCHANGED <<window, transform, spectrum_data, det, ret, now, is_beat,
                   beat_timer, beat_info, ticks, accepted, since>>
    /\ UNCHANGED <<samples, total, cbpc, data>>
    /\ UNCHANGED replayVars
    /\ UNCHANGED sysVars

\* line 344: lock() returns Err(PoisonError) and unwrap() panics
CbPoisoned ==
    /\ cbpc = "lock"
    /\ lock = "poisoned"
    /\ cbpc' = "panicked"
    /\ UNCHANGED <<samples, total, lock, data>>
    /\ UNCHANGED mainVars
    /\ UNCHANGED replayVars
    /\ UNCHANGED sysVars

NextFail ==
    \/ Next
    \/ MainFailure
    \/ CbPoisoned

SpecFail ==
    /\ Init
    /\ [][NextFail]_vars
    /\ WF_vars(CbLock) /\ WF_vars(CbExtend) /\ WF_vars(CbTrim)
    /\ WF_vars(CbPoisoned)
    /\ WF_vars(TickSpectrum)

----------------------------------------------------------------------------
(* Two detectors with the same configuration, fed the same spectra, each   *)
(* call reaching them dt1 and dt2 after the previous one.                  *)

Replay(sp, dt1, dt2) ==
    /\ replays < MaxReplay
    /\ now' = now + dt1
    /\ now2' = now2 + dt2
    /\ LET r1 == Detect(det, sp, now + dt1)
           r2 == Detect(det2, sp, now2 + dt2)
       IN  /\ det' = r1.det
           /\ det2' = r2.det
           /\ rets' = <<r1.ret, r2.ret>>
    /\ replays' = replays + 1
    /\ same_times' = (same_times /\ dt1 = dt2)
    /\ UNCHANGED <<mpc, window, transform, spectrum_data, ret, is_beat,
                   beat_timer, beat_info, ticks, accepted, since>>
    /\ UNCHANGED bufVars
    /\ UNCHANGED sysVars

NextReplay == \E sp \in Spectra, dt1 \in Delays, dt2 \in Delays : Replay(sp, dt1, dt2)

SpecReplay == Init /\ [][NextReplay]_vars

----------------------------------------------------------------------------
(* Properties *)

Min(a, b) == IF a < b THEN a ELSE b

\* the last k of the first t samples of the stream, in order
StreamSuffix(t, k) == [i \in 1..k |-> t - k + i - 1]

\* C1: outside the callback's critical section the shared buffer holds at
\* most 4096 samples, whatever chunks were appended and whatever ticks ran.
BufferBounded == lock # "cb" => Len(samples) <= BufCap

\* a buffer that overflowed and was trimmed, seen by a loop that has ticked
BufferBoundedWitness ==
    /\ lock # "cb"
    /\ total > BufCap
    /\ Len(samples) = BufCap
    /\ ticks >= 1

\* C2: after each append the buffer is, in order, the last
\* min(total_appended, 4096) samples of everything appended so far.
BufferIsSuffix ==
    lock # "cb" => samples = StreamSuffix(total, Min(total, BufCap))

\* a burst of 5000 samples into the empty buffer leaves samples [904, 5000)
BufferIsSuffixWitness ==
    /\ lock = "free"
    /\ cbpc = "idle"
    /\ total = 5000
    /\ Len(samples) = 4096
    /\ samples[1] = 904
    /\ samples[4096] = 4999

\* C3: a tick whose buffer holds fewer than 2048 samples has no spectrum;
\* a tick that has one computed it from the 2048 newest samples, in order;
\* the tick's spectrum step is never blocked waiting for samples.
SpectrumFromNewest ==
    /\ [](mpc = "spectrum" => ENABLED TickSpectrum)
    /\ [][(mpc = "spectrum" /\ mpc' = "detect") =>
            /\ total' = total
            /\ Len(samples) < FftSize => spectrum_data' = None
            /\ spectrum_data' # None => window' = StreamSuffix(total, FftSize)
         ]_vars

\* a spectrum computed after the buffer overflowed
SpectrumFromNewestWitness ==
    /\ mpc = "detect"
    /\ spectrum_data # None
    /\ Len(window) = FftSize
    /\ window[FftSize] >= BufCap

\* C4: a tick whose transform failed has no spectrum (not an earlier one),
\* does not call the detector, and goes on to the next iteration.
TransformErrorSkipsTick ==
    /\ [](transform = "err" => spectrum_data = None)
    /\ [][(mpc = "detect" /\ mpc' # "detect" /\ transform = "err") =>
            /\ det' = det
            /\ ret' = None
            /\ mpc' = "poll"
         ]_vars

\* a failed transform on a tick that follows a tick with a spectrum
TransformErrorWitness ==
    /\ transform = "err"
    /\ mpc = "poll"
    /\ ticks >= 2
    /\ det.energy_history # <<>>
    /\ ret = None

\* C5: any two ticks that incremented total_beats are more than 300 ms apart.
DebounceGap ==
    \A i \in 1..Len(accepted) : \A j \in 1..Len(accepted) :
        i < j => accepted[j] - accepted[i] > DebounceMs * UsPerMs

\* two accepted beats, then a raw beat that was not counted
DebounceGapWitness ==
    /\ mpc = "poll"
    /\ Len(accepted) = 2
    /\ ret = Some(TRUE)
    /\ now > accepted[2]

\* the tick about to run detect satisfies the raw beat condition
RawCondition ==
    /\ spectrum_data # None
    /\ LowBand(spectrum_data[1]) # {}
    /\ det.energy_history # <<>>
    /\ RawBeat(AvgLowEnergy(spectrum_data[1]), det.energy_history)

\* C6: a tick that satisfies the raw condition at most 300 ms after the
\* last accepted beat returns true and leaves total_beats, intervals and
\* last_beat unchanged; so of two qualifying ticks 100 ms apart, the first
\* one counted, the second reports true and is not counted.
DebouncedStillReportsBeat ==
    [][(mpc = "detect" /\ mpc' = "poll" /\ RawCondition
          /\ AsMillis(now - det.last_beat) <= DebounceMs) =>
            /\ ret' = Some(TRUE)
            /\ det'.total_beats = det.total_beats
            /\ det'.intervals = det.intervals
            /\ det'.last_beat = det.last_beat
      ]_vars

\* the second of two qualifying ticks 100 ms apart: reported, not counted
DebouncedPairWitness ==
    /\ mpc = "poll"
    /\ ret = Some(TRUE)
    /\ Len(accepted) = 1
    /\ det.total_beats = 1
    /\ now - accepted[1] = 100000

\* C7: total_beats never decreases.
TotalBeatsMonotone == [][det'.total_beats >= det.total_beats]_vars

\* beats were counted, then a tick passed without a spectrum
TotalBeatsMonotoneWitness ==
    /\ mpc = "poll"
    /\ det.total_beats >= 2
    /\ ret = None

\* C8: the reported bpm is 0 whenever fewer than 3 intervals are stored.
BpmZeroBelowThree == Len(det.intervals) < 3 => beat_info.bpm = 0

RECURSIVE SortedInsert(_, _)
SortedInsert(s, x) ==
    IF s = <<>> THEN <<x>>
    ELSE IF x <= Head(s) THEN <<x>> \o s
    ELSE <<Head(s)>> \o SortedInsert(Tail(s), x)

RECURSIVE Sorted(_)
Sorted(s) == IF s = <<>> THEN <<>> ELSE SortedInsert(Sorted(Tail(s)), Head(s))

\* 60000 / median(interval_ms), in units of 1/BpmScale
MedianBpm(q) ==
    LET ms == Sorted([i \in 1..Len(q) |-> AsMillis(q[i])])
        n  == Len(ms)
    IN  IF n % 2 = 1
        THEN (MinuteMs * BpmScale) \div ms[(n + 1) \div 2]
        ELSE (MinuteMs * BpmScale * 2) \div (ms[n \div 2] + ms[n \div 2 + 1])

Abs(x) == IF x < 0 THEN -x ELSE x

\* C9: with at least 3 intervals stored, the reported bpm is 60000 divided
\* by the median of the stored intervals in ms, within half a beat per minute.
BpmIsMedian ==
    Len(det.intervals) >= 3 =>
        Abs(beat_info.bpm - MedianBpm(det.intervals)) <= BpmScale \div 2

\* C10 as stated: two detectors fed the same spectra return the same
\* is_beat, total_beats and bpm, whatever the times of the calls.
ReplayIdentical ==
    rets # <<>> =>
        /\ rets[1] = rets[2]
        /\ det.total_beats = det2.total_beats
        /\ GetBpm(det) = GetBpm(det2)

\* C10 as amended: the is_beat values and energy histories of the two
\* detectors agree whatever the times of the calls; total_beats and bpm
\* agree when the calls reach both detectors at the same times.
ReplayDeterministic ==
    rets # <<>> =>
        /\ rets[1] = rets[2]
        /\ det.energy_history = det2.energy_history
        /\ same_times =>
              /\ det.total_beats = det2.total_beats
              /\ GetBpm(det) = GetBpm(det2)

\* the same spectra at different times: both report a beat, one counts it
ReplayWitness ==
    /\ ~same_times
    /\ rets = <<TRUE, TRUE>>
    /\ det.total_beats # det2.total_beats

\* the tick about to run detect has a spectrum with bins in the low band
InBand == spectrum_data # None /\ LowBand(spectrum_data[1]) # {}

\* the step in which the render loop runs detect and the latch
DetectStep == mpc = "detect" /\ mpc' = "poll"

\* C11: a tick whose low-band reading is not greater than 0.01 returns
\* is_beat = false and counts no beat, whatever the energy history; in a
\* run of ticks that all read 0.005 no tick reports a beat, the BeatInfo
\* flag stays false and total_beats stays 0.
FloorBlocksBeat ==
    /\ [][(DetectStep /\ InBand /\ AvgLowEnergy(spectrum_data[1]) <= Floor) =>
            /\ ret' = Some(FALSE)
            /\ det'.total_beats = det.total_beats
         ]_vars
    /\ [](scen = "quiet" =>
            /\ ret # Some(TRUE)
            /\ ~beat_info.is_beat
            /\ det.total_beats = 0)

\* the 45th tick of the quiet scenario, the history full
FloorBlocksBeatWitness ==
    /\ scen = "quiet"
    /\ mpc = "poll"
    /\ ticks = 45
    /\ Len(det.energy_history) = HistorySize
    /\ ret = Some(FALSE)

\* C12: after 43 ticks reading 0.02, the tick reading 0.2 reports a beat
\* and total_beats goes from 0 to 1.
FirstBeatCounted ==
    (scen = "primed" /\ mpc = "poll" /\ ticks = HistorySize + 1) =>
        /\ ret = Some(TRUE)
        /\ det.total_beats = 1

\* C13: once the audio subsystem has reported a stream error, the failure
\* flag is set for the render loop to see.
StreamErrorSetsFlag == stream_errors > 0 => FailureFlag

\* C14: a failed capture setup leaves the program in its render loop, with
\* no stream and the mono fallback configuration.
StartupFailureDegrades ==
    (mpc # "startup" /\ stream = "none") =>
        /\ mpc \in {"poll", "lock", "spectrum", "detect"}
        /\ channels = 1

\* C15: a tick that starts without a live stream, or with the failure
\* flag set, calls build_input_stream again on that tick.
ReacquireEveryTick ==
    [][(mpc = "poll" /\ mpc' = "lock" /\ (stream # "live" \/ FailureFlag)) =>
          acquisitions' = acquisitions + 1
      ]_vars

\* C16: the buffer a tick reads is the one left by a completed callback:
\* no callback is between its lock and its unlock, and the buffer is the
\* trimmed suffix of everything the completed callbacks appended.
SnapshotOfCompletedWrite ==
    /\ [](mpc = "spectrum" => lock = "main" /\ cbpc \in {"idle", "lock"})
    /\ [][(mpc = "spectrum" /\ mpc' = "detect") =>
            /\ samples = StreamSuffix(total, Min(total, BufCap))
            /\ Enough(samples) => window' = StreamSuffix(total, FftSize)
         ]_vars

\* a tick reading the buffer while a callback holding new data waits
SnapshotWitness ==
    /\ mpc = "spectrum"
    /\ cbpc = "lock"
    /\ total > BufCap
    /\ Len(samples) = BufCap

\* the sum of the channel values of frame i of an interleaved block
RECURSIVE FrameSum(_, _, _, _)
FrameSum(d, n, i, c) ==
    IF c = 0 THEN 0 ELSE d[(i - 1) * n + c] + FrameSum(d, n, i, c - 1)

\* C17: a block of k frames of N channels appends k samples, the i-th the
\* average of the N values of frame i.
CallbackDownmixes ==
    [][(cbpc = "extend" /\ cbpc' = "trim") =>
          LET k == Len(data) \div channels IN
          /\ Len(samples') = Len(samples) + k
          /\ \A i \in 1..k :
                channels * samples'[Len(samples) + i]
                    = FrameSum(data, channels, i, channels)
      ]_vars

RECURSIVE SumSqSeq(_)
SumSqSeq(s) == IF s = <<>> THEN 0 ELSE Head(s) * Head(s) + SumSqSeq(Tail(s))

\* e > sensitivity * mean(h) + 0.5 * sqrt(variance(h)) and e > 0.01, in
\* integers: with n = Len(h), a = SensDen*n*e - SensNum*sum(h) and
\* D = n*sum(h^2) - sum(h)^2 (n^2 times the variance), the threshold test
\* is  a / (SensDen*n) > sqrt(D) / (2*n),  that is  a > 0 and
\* 4*a^2 > SensDen^2 * D
AboveVarianceThreshold(e, h) ==
    LET n == Len(h)
        a == SensDen * n * e - SensNum * SumSeq(h)
        D == n * SumSqSeq(h) - SumSeq(h) * SumSeq(h)
    IN  /\ a > 0
        /\ 4 * a * a > SensDen * SensDen * D
        /\ e > Floor

\* C18: with a non-empty history, detect's flag is the comparison of the
\* reading with sensitivity * mean + 0.5 * sqrt(variance) of the history
\* as it was before the push.
VarianceThreshold ==
    [][(DetectStep /\ InBand /\ det.energy_history # <<>>) =>
          ret' = Some(AboveVarianceThreshold(AvgLowEnergy(spectrum_data[1]),
                                             det.energy_history))
      ]_vars

\* the average over the bins in [20, 150] Hz of the magnitudes, those of
\* the bins at or below 60 Hz multiplied by 1.5
WeightedLowEnergy(sp) ==
    LET lo == {f \in LowBand(sp) : f <= 60}
        hi == LowBand(sp) \ lo
    IN  (3 * SumOver(sp, lo) + 2 * SumOver(sp, hi)) \div (2 * Cardinality(LowBand(sp)))

\* C19: the reading pushed into the energy history is the weighted
\* low-band average (within one unit of rounding).
WeightedReading ==
    [][(DetectStep /\ InBand) =>
          LET h == det'.energy_history
          IN  Abs(h[Len(h)] - WeightedLowEnergy(spectrum_data[1])) <= 1
      ]_vars

\* the last n elements of s
LastN(s, n) == IF Len(s) <= n THEN s ELSE SubSeq(s, Len(s) - n + 1, Len(s))

\* the elapsed time before each counted beat, from the previous counted
\* beat or, for the first, from the construction of the detector
CountedIntervals ==
    [i \in 1..Len(accepted) |->
        accepted[i] - (IF i = 1 THEN 0 ELSE accepted[i - 1])]

\* C20: the energy history never holds more than history_size readings
\* and the interval history never more than 10; each push appends at the
\* back and, past the capacity, removes exactly the oldest entry, so the
\* histories are the most recent readings and intervals in arrival order.
HistoriesAreRecent ==
    /\ [](/\ Len(det.energy_history) <= HistorySize
          /\ Len(det.intervals) <= MaxIntervals
          /\ det.intervals = LastN(CountedIntervals, MaxIntervals)
          /\ (scen # "free" /\ mpc = "poll") =>
                det.energy_history =
                    LastN([k \in 1..ticks |-> AvgLowEnergy(ScenSpectrum(scen, k))],
                          HistorySize))
    /\ [][(DetectStep /\ InBand) =>
            det'.energy_history =
                LastN(Append(det.energy_history, AvgLowEnergy(spectrum_data[1])),
                      HistorySize)
         ]_vars

\* both histories full and past their first eviction
HistoriesAreRecentWitness ==
    /\ scen = "alternating"
    /\ mpc = "poll"
    /\ ticks > HistorySize
    /\ Len(det.energy_history) = HistorySize
    /\ Len(det.intervals) = MaxIntervals
    /\ det.total_beats > MaxIntervals

\* C21: a tick whose spectrum has no bin in [20, 150] Hz returns false and
\* leaves the energy history, last_beat, the intervals and total_beats of
\* the detector as they were.
NoBinsLeavesDetector ==
    [][(DetectStep /\ spectrum_data # None /\ LowBand(spectrum_data[1]) = {}) =>
          /\ ret' = Some(FALSE)
          /\ det' = det
      ]_vars

\* a spectrum without low-band bins reaching a detector that has a history
\* and has counted a beat
NoBinsWitness ==
    /\ mpc = "poll"
    /\ spectrum_data = Some(SpOut)
    /\ ret = Some(FALSE)
    /\ Len(det.energy_history) >= 2
    /\ det.total_beats >= 1

\* the elapsed times between consecutive counted beats
InterBeatTimes ==
    {accepted[j + 1] - accepted[j] : j \in 1..(Len(accepted) - 1)}

\* C22: every stored interval is the elapsed time between two consecutive
\* accepted beats; the first accepted beat of a detector stores none.
IntervalsAreInterBeat ==
    /\ \A i \in 1..Len(det.intervals) : det.intervals[i] \in InterBeatTimes
    /\ det.total_beats = 1 => det.intervals = <<>>

\* C23: a call of build_input_stream that succeeds leaves the stream live,
\* the failure flag clear and the buffer empty; one that fails leaves the
\* stream and the buffer as they were; and once the stream delivers again
\* after a stream error, no window handed to the transform holds a sample
\* delivered before that error.
RecoveryDiscardsBuffer ==
    /\ [][(acquisitions' > acquisitions /\ stream' = "live") =>
            samples' = <<>> /\ ~FailureFlag
         ]_vars
    /\ [][(acquisitions' > acquisitions /\ stream' # "live") =>
            stream' = stream /\ samples' = samples
         ]_vars
    /\ [][(mpc = "spectrum" /\ mpc' = "detect" /\ spectrum_data' # None
              /\ stream_errors > 0 /\ stream = "live" /\ total > error_at) =>
            window'[1] >= error_at
         ]_vars

\* C24: the render loop holds the buffer mutex only to copy its snapshot:
\* the step that runs hann_window and the transform is taken without the
\* mutex, and a callback never waits for the mutex while the render loop
\* holds it with the transform still to run.
LockOnlyForCopy ==
    /\ [][(mpc = "spectrum" /\ mpc' = "detect" /\ transform' # "none") =>
            lock # "main"
         ]_vars
    /\ [](~(cbpc = "lock" /\ lock = "main" /\ mpc = "spectrum"
              /\ Enough(samples)))

\* C25: the data callback never panics, and every invocation of it
\* returns, under any interleaving with the render loop and also when
\* the render loop fails while it holds the mutex.
CallbackAlwaysReturns ==
    /\ [](cbpc # "panicked")
    /\ (cbpc = "lock") ~> (cbpc = "idle")

\* C26: the is_beat of the BeatInfo is true on a tick on which detect
\* returned true and on the 4 ticks after it, and false from the 5th tick
\* after it until detect returns true again; a tick counts whether or not
\* it had a spectrum.
LatchFiveTicks ==
    /\ beat_info.is_beat = (since < LatchTicks)
    /\ is_beat = beat_info.is_beat

\* a beat on the second tick, then five ticks without a spectrum: the
\* latch has just expired
LatchExpiredWitness ==
    /\ scen = "pulse"
    /\ mpc = "poll"
    /\ ticks = 7
    /\ det.energy_history = <<5, 200>>
    /\ ret = None
    /\ since = LatchTicks
    /\ ~beat_info.is_beat

\* C27: the number of stored intervals is min(total_beats, 10); a step
\* that changes total_beats or the intervals is a tick that adds exactly 1
\* to total_beats and appends exactly one interval, evicting the oldest
\* past the capacity.
IntervalsCountBeats ==
    /\ [](Len(det.intervals) = Min(det.total_beats, MaxIntervals))
    /\ [][(det'.total_beats # det.total_beats \/ det'.intervals # det.intervals) =>
            /\ DetectStep
            /\ det'.total_beats = det.total_beats + 1
            /\ det'.intervals =
                  LastN(Append(det.intervals, now - det.last_beat), MaxIntervals)
         ]_vars

\* the twelfth counted beat: ten intervals stored, two evicted
IntervalsCountBeatsWitness ==
    /\ mpc = "poll"
    /\ det.total_beats = MaxIntervals + 2
    /\ Len(det.intervals) = MaxIntervals
    /\ accepted[Len(accepted)] = now

====
